---- MODULE Spec2Model ----
(***************************************************************************)
(* A model of the HTML character-reference coder: escape_text,             *)
(* escape_attribute, escape_all_quotes (src/src/escape.rs) and unescape    *)
(* (src/src/unescape.rs).                                                  *)
(*                                                                         *)
(* Bytes are integers 0..255, byte strings are sequences of bytes.  An     *)
(* Option<u8> is <<>> (None) or <<b>> (Some(b)).  A u32 is a record        *)
(* [hi, lo] of two 16-bit halves, so that the whole 32-bit range and its   *)
(* overflow are representable.                                             *)
(***************************************************************************)
EXTENDS Integers, Sequences, FiniteSets, TLC

VARIABLES
    fn,        \* the escape function called ("escape_text", ...), "" if none
    raw,       \* escape!: the input bytes ($raw)
    k,         \* escape!: index of the next byte of raw the for loop visits
    output,    \* escape!: the output Vec<u8>
    epc,       \* escape!: "idle", "loop", "done" or "panic"
    escaped,   \* unescape: the input bytes
    iter,      \* unescape: the Peekable iterator over escaped
    buffer,    \* unescape: the output Vec<u8>
    pc,        \* unescape: "idle", "loop", "done" or "panic"
    panic,     \* the message of the panic that ended the call, "" if none
    last,      \* the bytes consumed and returned by the last match_entity call
    ref        \* how the numeric reference of the input was spelled

vars == <<fn, raw, k, output, epc, escaped, iter, buffer, pc, panic, last, ref>>

(***************************************************************************)
(* Bytes.                                                                  *)
(***************************************************************************)
Ch ==
    [amp |-> 38, hash |-> 35, semi |-> 59, lt |-> 60, gt |-> 62,
     quot |-> 34, apos |-> 39, x |-> 120, X |-> 88, sp |-> 32]

Range(lo, hi) == lo..hi

DecimalDigits == Range(48, 57)                                  \* b'0'..=b'9'
HexadecimalDigits == Range(48, 57) \cup Range(97, 102) \cup Range(65, 70)
Alphanumerics == Range(48, 57) \cup Range(97, 122) \cup Range(65, 90)

(***************************************************************************)
(* std: String::from_utf8 succeeds exactly on well-formed UTF-8.           *)
(***************************************************************************)
IsCont(s, i) == i <= Len(s) /\ s[i] \in Range(\h80, \hBF)

RECURSIVE Utf8From(_, _)
Utf8From(s, i) ==
    IF i > Len(s) THEN TRUE
    ELSE LET b == s[i] IN
         IF b < \h80 THEN Utf8From(s, i + 1)
         ELSE IF b \in Range(\hC2, \hDF)
              THEN IsCont(s, i + 1) /\ Utf8From(s, i + 2)
         ELSE IF b \in Range(\hE0, \hEF)
              THEN /\ IsCont(s, i + 1) /\ IsCont(s, i + 2)
                   /\ (b = \hE0 => s[i + 1] >= \hA0)
                   /\ (b = \hED => s[i + 1] <= \h9F)
                   /\ Utf8From(s, i + 3)
         ELSE IF b \in Range(\hF0, \hF4)
              THEN /\ IsCont(s, i + 1) /\ IsCont(s, i + 2) /\ IsCont(s, i + 3)
                   /\ (b = \hF0 => s[i + 1] >= \h90)
                   /\ (b = \hF4 => s[i + 1] <= \h8F)
                   /\ Utf8From(s, i + 4)
         ELSE FALSE

from_utf8_ok(s) == Utf8From(s, 1)

FROM_UTF8_ERROR == "called Result::unwrap() on an Err value: FromUtf8Error"

(***************************************************************************)
(* std: char::from_u32 and the UTF-8 encoding of a char (char::to_string). *)
(***************************************************************************)
char_from_u32_ok(c) == c <= \h10FFFF /\ ~(c \in Range(\hD800, \hDFFF))

encode_utf8(c) ==
    IF c < \h80 THEN <<c>>
    ELSE IF c < \h800 THEN <<\hC0 + (c \div 64), \h80 + (c % 64)>>
    ELSE IF c < \h10000
         THEN <<\hE0 + (c \div 4096), \h80 + ((c \div 64) % 64), \h80 + (c % 64)>>
    ELSE <<\hF0 + (c \div 262144), \h80 + ((c \div 4096) % 64),
           \h80 + ((c \div 64) % 64), \h80 + (c % 64)>>

(***************************************************************************)
(* std: Peekable.  i is the index of the next byte the underlying slice    *)
(* iterator yields; pk is <<>> when nothing is cached and <<v>> when       *)
(* peek() has cached the Option v it took from the underlying iterator.    *)
(***************************************************************************)
new_iter == [i |-> 1, pk |-> <<>>]

slice_next(s, i) == IF i <= Len(s) THEN <<s[i]>> ELSE <<>>

iter_peek(s, it) ==
    IF Len(it.pk) > 0 THEN [it |-> it, val |-> it.pk[1]]
    ELSE LET v == slice_next(s, it.i) IN
         [it |-> [i |-> IF Len(v) > 0 THEN it.i + 1 ELSE it.i, pk |-> <<v>>],
          val |-> v]

iter_next(s, it) ==
    IF Len(it.pk) > 0 THEN [it |-> [i |-> it.i, pk |-> <<>>], val |-> it.pk[1]]
    ELSE LET v == slice_next(s, it.i) IN
         [it |-> [i |-> IF Len(v) > 0 THEN it.i + 1 ELSE it.i, pk |-> <<>>],
          val |-> v]

\* The number of bytes of the input the iterator has yielded through next().
Consumed(it) ==
    IF Len(it.pk) > 0 /\ Len(it.pk[1]) > 0 THEN it.i - 2 ELSE it.i - 1

(***************************************************************************)
(* unescape.rs                                                             *)
(***************************************************************************)
PEEK_MATCH_ERROR == "iter.next() did not match previous iter.peek()"

REPLACEMENT_CHAR == \hFFFD

\* consumer!: push bytes while the peeked byte is accepted.
RECURSIVE consumer(_, _, _, _)
consumer(s, it, accept, buf) ==
    LET p == iter_peek(s, it) IN
    IF Len(p.val) = 0 THEN [it |-> p.it, out |-> buf, panic |-> ""]
    ELSE IF p.val[1] \in accept
         THEN LET n == iter_next(s, p.it) IN
              IF Len(n.val) = 0
              THEN [it |-> n.it, out |-> buf, panic |-> PEEK_MATCH_ERROR]
              ELSE consumer(s, n.it, accept, Append(buf, n.val[1]))
    ELSE [it |-> p.it, out |-> buf, panic |-> ""]

consume_decimal(s, it) == consumer(s, it, DecimalDigits, <<>>)

\* A consumer of hexadecimal digits that forgets b'A'..=b'F'.
consume_hexadecimal_lower(s, it) ==
    consumer(s, it, Range(48, 57) \cup Range(97, 102), <<>>)

consume_hexadecimal(s, it) == consumer(s, it, HexadecimalDigits, <<>>)

consume_alphanumeric(s, it) == consumer(s, it, Alphanumerics, <<>>)

\* char::to_digit
to_digit(b) ==
    IF b \in Range(48, 57) THEN b - 48
    ELSE IF b \in Range(97, 102) THEN b - 97 + 10
    ELSE b - 65 + 10

\* u32::from_str_radix on a run of digits of the radix: Err on the empty
\* string and when the value overflows 32 bits.
RECURSIVE from_str_radix_from(_, _, _, _)
from_str_radix_from(digits, radix, i, acc) ==
    IF i > Len(digits) THEN [ok |-> TRUE, hi |-> acc.hi, lo |-> acc.lo]
    ELSE LET l == acc.lo * radix + to_digit(digits[i])
             h == acc.hi * radix + (l \div 65536)
         IN  IF h > 65535 THEN [ok |-> FALSE, hi |-> 0, lo |-> 0]
             ELSE from_str_radix_from(digits, radix, i + 1,
                                      [hi |-> h, lo |-> l % 65536])

from_str_radix(digits, radix) ==
    IF Len(digits) = 0 THEN [ok |-> FALSE, hi |-> 0, lo |-> 0]
    ELSE from_str_radix_from(digits, radix, 1, [hi |-> 0, lo |-> 0])

\* A noncharacter test that forgets the supplementary planes.
is_noncharacter_bmp(c) ==
    c \in Range(\hFDD0, \hFDEF) \/ c \in {\hFFFE, \hFFFF}

is_noncharacter(c) ==
    \/ c \in Range(\hFDD0, \hFDEF)
    \/ c \in {\hFFFE, \hFFFF, \h1FFFE, \h1FFFF, \h2FFFE, \h2FFFF, \h3FFFE,
              \h3FFFF, \h4FFFE, \h4FFFF, \h5FFFE, \h5FFFF, \h6FFFE, \h6FFFF,
              \h7FFFE, \h7FFFF, \h8FFFE, \h8FFFF, \h9FFFE, \h9FFFF, \hAFFFE,
              \hAFFFF, \hBFFFE, \hBFFFF, \hCFFFE, \hCFFFF, \hDFFFE, \hDFFFF,
              \hEFFFE, \hEFFFF, \hFFFFE, \hFFFFF, \h10FFFE, \h10FFFF}

\* number > 0x10FFFF, on the two halves of the u32.
is_outside_range(number) == number.hi > \h10

is_surrogate(c) == c \in Range(\hD800, \hDFFF)

is_control(c) == c \in Range(0, \h1F) \/ c \in Range(\h7F, \h9F)

is_ascii_whitespace(c) == c \in {\h09, \h0A, \h0C, \h0D, \h20}

None == [some |-> FALSE, bytes |-> <<>>]

Some(bytes) == [some |-> TRUE, bytes |-> bytes]

char_to_vecu8(c) == Some(encode_utf8(c))

\* char::from_u32(c).unwrap(): every caller passes a scalar value.
u32_to_vecu8(c) == Some(encode_utf8(c))

\* The control-character-reference parse error exceptions.
LegacyExceptions ==
    (\h80 :> \h20AC) @@ (\h82 :> \h201A) @@ (\h83 :> \h0192) @@
    (\h84 :> \h201E) @@ (\h85 :> \h2026) @@ (\h86 :> \h2020) @@
    (\h87 :> \h2021) @@ (\h88 :> \h02C6) @@ (\h89 :> \h2030) @@
    (\h8A :> \h0160) @@ (\h8B :> \h2039) @@ (\h8C :> \h0152) @@
    (\h8E :> \h017D) @@ (\h91 :> \h2018) @@ (\h92 :> \h2019) @@
    (\h93 :> \h201C) @@ (\h94 :> \h201D) @@ (\h95 :> \h2022) @@
    (\h96 :> \h2013) @@ (\h97 :> \h2014) @@ (\h98 :> \h02DC) @@
    (\h99 :> \h2122) @@ (\h9A :> \h0161) @@ (\h9B :> \h203A) @@
    (\h9C :> \h0153) @@ (\h9E :> \h017E) @@ (\h9F :> \h0178)

correct_numeric_entity(number) ==
    IF number.hi = 0 /\ number.lo = 0 THEN char_to_vecu8(REPLACEMENT_CHAR)
    ELSE IF is_outside_range(number) THEN char_to_vecu8(REPLACEMENT_CHAR)
    ELSE LET c == number.hi * 65536 + number.lo IN
         IF is_surrogate(c) THEN char_to_vecu8(REPLACEMENT_CHAR)
         ELSE IF is_noncharacter(c) THEN None
         ELSE IF c \in DOMAIN LegacyExceptions
              THEN u32_to_vecu8(LegacyExceptions[c])
         ELSE IF c = \h0D THEN None
         ELSE IF is_ascii_whitespace(c) THEN u32_to_vecu8(c)
         ELSE IF is_control(c) THEN None
         ELSE IF char_from_u32_ok(c) THEN char_to_vecu8(c)
         ELSE None

\* A match_numeric_entity that consumes the ';' without peeking for it.
match_numeric_end_nopeek(s, it, best_expansion, number) ==
    LET n == iter_next(s, it)
        expansion == IF number.ok THEN correct_numeric_entity(number) ELSE None
    IN  IF Len(n.val) = 0
        THEN [it |-> n.it, out |-> best_expansion, panic |-> PEEK_MATCH_ERROR]
        ELSE [it |-> n.it,
              out |-> IF expansion.some THEN expansion.bytes
                      ELSE best_expansion \o n.val,
              panic |-> ""]

\* match_numeric_entity from the optional ';' on.
match_numeric_end(s, it, best_expansion, number) ==
    LET p == iter_peek(s, it)
        semi == Len(p.val) > 0 /\ p.val[1] = Ch.semi
        n == IF semi THEN iter_next(s, p.it) ELSE p
        best == IF semi THEN best_expansion \o n.val ELSE best_expansion
        expansion == IF number.ok THEN correct_numeric_entity(number) ELSE None
    IN  IF semi /\ Len(n.val) = 0
        THEN [it |-> n.it, out |-> best_expansion, panic |-> PEEK_MATCH_ERROR]
        ELSE [it |-> n.it,
              out |-> IF expansion.some THEN expansion.bytes ELSE best,
              panic |-> ""]

match_numeric_entity(s, it) ==
    LET c == iter_next(s, it) IN
    IF Len(c.val) = 0 \/ c.val[1] # Ch.hash
    THEN [it |-> c.it, out |-> <<>>, panic |-> PEEK_MATCH_ERROR]
    ELSE LET p == iter_peek(s, c.it) IN
         IF Len(p.val) = 0
         THEN [it |-> p.it, out |-> <<Ch.amp, Ch.hash>>, panic |-> ""]
         ELSE IF p.val[1] \in {Ch.x, Ch.X}
              THEN LET n == iter_next(s, p.it)
                       hex == consume_hexadecimal(s, n.it)
                   IN  IF Len(n.val) = 0 \/ hex.panic # ""
                       THEN [it |-> hex.it, out |-> <<>>,
                             panic |-> PEEK_MATCH_ERROR]
                       ELSE match_numeric_end(s, hex.it,
                                <<Ch.amp, Ch.hash>> \o n.val \o hex.out,
                                from_str_radix(hex.out, 16))
         ELSE LET dec == consume_decimal(s, p.it) IN
              IF dec.panic # ""
              THEN [it |-> dec.it, out |-> <<>>, panic |-> PEEK_MATCH_ERROR]
              ELSE match_numeric_end(s, dec.it,
                       <<Ch.amp, Ch.hash>> \o dec.out,
                       from_str_radix(dec.out, 10))

(***************************************************************************)
(* The entity table of entities.rs, which build.rs generates from the      *)
(* WHATWG entities.json: the keys the specification and the tests name,    *)
(* with their expansions' UTF-8 bytes, and the bounds of the full table    *)
(* ("&GT" .. "&CounterClockwiseContourIntegral;").                         *)
(***************************************************************************)
ENTITIES ==
    (<<38, 116, 105, 109, 101, 115>> :> <<195, 151>>) @@                \* &times
    (<<38, 116, 105, 109, 101, 115, 59>> :> <<195, 151>>) @@            \* &times;
    (<<38, 116, 105, 109, 101, 115, 98, 59>> :> <<226, 138, 160>>) @@   \* &timesb;
    (<<38, 116, 105, 109, 101, 115, 98, 97, 114, 59>> :> <<226, 168, 177>>) @@
    (<<38, 116, 105, 109, 101, 115, 100, 59>> :> <<226, 168, 176>>) @@  \* &timesd;
    (<<38, 97, 109, 112>> :> <<38>>) @@                                 \* &amp
    (<<38, 97, 109, 112, 59>> :> <<38>>) @@                             \* &amp;
    (<<38, 65, 77, 80>> :> <<38>>) @@                                   \* &AMP
    (<<38, 65, 77, 80, 59>> :> <<38>>) @@                               \* &AMP;
    (<<38, 108, 116>> :> <<60>>) @@                                     \* &lt
    (<<38, 108, 116, 59>> :> <<60>>) @@                                 \* &lt;
    (<<38, 103, 116>> :> <<62>>) @@                                     \* &gt
    (<<38, 103, 116, 59>> :> <<62>>) @@                                 \* &gt;
    (<<38, 113, 117, 111, 116>> :> <<34>>) @@                           \* &quot
    (<<38, 113, 117, 111, 116, 59>> :> <<34>>) @@                       \* &quot;
    (<<38, 97, 112, 111, 115, 59>> :> <<39>>)                           \* &apos;

ENTITY_MIN_LENGTH == 3

ENTITY_MAX_LENGTH == 33

Min(a, b) == IF a < b THEN a ELSE b

\* A search that tries the shortest prefix first.
RECURSIVE find_shortest_from(_, _, _)
find_shortest_from(candidate, check_len, max_len) ==
    IF check_len > max_len THEN candidate
    ELSE IF SubSeq(candidate, 1, check_len) \in DOMAIN ENTITIES
         THEN ENTITIES[SubSeq(candidate, 1, check_len)]
                  \o SubSeq(candidate, check_len + 1, Len(candidate))
    ELSE find_shortest_from(candidate, check_len + 1, max_len)

find_shortest(candidate, check_len) ==
    find_shortest_from(candidate, ENTITY_MIN_LENGTH, check_len)

\* match_entity's search "for check_len in (ENTITY_MIN_LENGTH..=max_len).rev()".
RECURSIVE find_longest(_, _)
find_longest(candidate, check_len) ==
    IF check_len < ENTITY_MIN_LENGTH THEN candidate
    ELSE IF SubSeq(candidate, 1, check_len) \in DOMAIN ENTITIES
         THEN ENTITIES[SubSeq(candidate, 1, check_len)]
                  \o SubSeq(candidate, check_len + 1, Len(candidate))
    ELSE find_longest(candidate, check_len - 1)

\* A lookup of the whole candidate only, with no search of its prefixes.
match_candidate_exact(candidate) ==
    IF candidate \in DOMAIN ENTITIES THEN ENTITIES[candidate] ELSE candidate

\* A search that returns nothing when no prefix is a key.
match_candidate_drop(candidate) ==
    IF Len(candidate) < ENTITY_MIN_LENGTH THEN candidate
    ELSE IF \E n \in ENTITY_MIN_LENGTH..Min(Len(candidate), ENTITY_MAX_LENGTH) :
                SubSeq(candidate, 1, n) \in DOMAIN ENTITIES
         THEN find_longest(candidate, Min(Len(candidate), ENTITY_MAX_LENGTH))
    ELSE <<>>

\* match_entity once the candidate is determined.
match_candidate(candidate) ==
    IF Len(candidate) < ENTITY_MIN_LENGTH THEN candidate
    ELSE find_longest(candidate, Min(Len(candidate), ENTITY_MAX_LENGTH))

match_entity(s, it) ==
    LET h == iter_peek(s, it) IN
    IF Len(h.val) > 0 /\ h.val[1] = Ch.hash THEN match_numeric_entity(s, h.it)
    ELSE LET run == consume_alphanumeric(s, h.it)
             p == iter_peek(s, run.it)
             semi == Len(p.val) > 0 /\ p.val[1] = Ch.semi
             n == IF semi THEN iter_next(s, p.it) ELSE p
             candidate == <<Ch.amp>> \o run.out \o (IF semi THEN n.val ELSE <<>>)
         IN  IF run.panic # "" \/ (semi /\ Len(n.val) = 0)
             THEN [it |-> n.it, out |-> <<>>, panic |-> PEEK_MATCH_ERROR]
             ELSE [it |-> n.it, out |-> match_candidate(candidate),
                   panic |-> ""]

NoCall == [called |-> FALSE, start |-> 0, consumed |-> <<>>, out |-> <<>>]

NoRef == [numeric |-> FALSE, pre |-> <<>>, marker |-> <<>>, digits |-> <<>>,
          semi |-> <<>>, tail |-> <<>>]

\* unescape's loop, a byte other than '&': buffer.push(*c).
ScanByte ==
    /\ pc = "loop"
    /\ LET c == iter_next(escaped, iter) IN
       /\ Len(c.val) > 0
       /\ c.val[1] # Ch.amp
       /\ iter' = c.it
       /\ buffer' = Append(buffer, c.val[1])
    /\ UNCHANGED <<fn, raw, k, output, epc, escaped, pc, panic, last, ref>>

\* unescape's loop, '&': buffer.append(&mut match_entity(&mut iter)).
ScanAmp ==
    /\ pc = "loop"
    /\ LET c == iter_next(escaped, iter) IN
       /\ Len(c.val) > 0
       /\ c.val[1] = Ch.amp
       /\ LET m == match_entity(escaped, c.it) IN
          /\ iter' = m.it
          /\ buffer' = buffer \o m.out
          /\ pc' = IF m.panic # "" THEN "panic" ELSE "loop"
          /\ panic' = m.panic
          /\ last' = [called |-> TRUE,
                      start |-> Consumed(c.it),
                      consumed |-> SubSeq(escaped, Consumed(c.it),
                                          Consumed(m.it)),
                      out |-> m.out]
    /\ UNCHANGED <<fn, raw, k, output, epc, escaped, ref>>

\* unescape's return: String::from_utf8(buffer).unwrap().
Finish ==
    /\ pc = "loop"
    /\ Len(iter_next(escaped, iter).val) = 0
    /\ pc' = IF from_utf8_ok(buffer) THEN "done" ELSE "panic"
    /\ panic' = IF from_utf8_ok(buffer) THEN "" ELSE FROM_UTF8_ERROR
    /\ UNCHANGED <<fn, raw, k, output, epc, escaped, iter, buffer, last, ref>>

(***************************************************************************)
(* escape.rs                                                               *)
(***************************************************************************)
MAP_U8_ERROR == "map_u8 called on invalid character"

\* A map_u8 whose "&amp" lacks the ';'.
map_u8_nosemi(c) ==
    IF c = Ch.amp THEN [bytes |-> <<38, 97, 109, 112>>, panic |-> ""]
    ELSE IF c = Ch.lt THEN [bytes |-> <<38, 108, 116, 59>>, panic |-> ""]
    ELSE IF c = Ch.gt THEN [bytes |-> <<38, 103, 116, 59>>, panic |-> ""]
    ELSE IF c = Ch.quot
         THEN [bytes |-> <<38, 113, 117, 111, 116, 59>>, panic |-> ""]
    ELSE IF c = Ch.apos
         THEN [bytes |-> <<38, 97, 112, 111, 115, 59>>, panic |-> ""]
    ELSE [bytes |-> <<>>, panic |-> "map_u8 called on invalid character"]

map_u8(c) ==
    IF c = Ch.amp THEN [bytes |-> <<38, 97, 109, 112, 59>>, panic |-> ""]
    ELSE IF c = Ch.lt THEN [bytes |-> <<38, 108, 116, 59>>, panic |-> ""]
    ELSE IF c = Ch.gt THEN [bytes |-> <<38, 103, 116, 59>>, panic |-> ""]
    ELSE IF c = Ch.quot
         THEN [bytes |-> <<38, 113, 117, 111, 116, 59>>, panic |-> ""]
    ELSE IF c = Ch.apos
         THEN [bytes |-> <<38, 97, 112, 111, 115, 59>>, panic |-> ""]
    ELSE [bytes |-> <<>>, panic |-> MAP_U8_ERROR]

\* The $ch literals each function hands to escape!.
escape_text == {Ch.amp, Ch.lt, Ch.gt}

\* An escape_attribute that escapes the apostrophe too.
escape_attribute_apos == {Ch.amp, Ch.lt, Ch.gt, Ch.quot, Ch.apos}

escape_attribute == {Ch.amp, Ch.lt, Ch.gt, Ch.quot}

escape_all_quotes == {Ch.amp, Ch.lt, Ch.gt, Ch.quot, Ch.apos}

Patterns(f) ==
    IF f = "escape_text" THEN escape_text
    ELSE IF f = "escape_attribute" THEN escape_attribute
    ELSE escape_all_quotes

\* One arm of escape!'s match on a byte c.
escape_byte(f, c) ==
    IF c \in Patterns(f) THEN map_u8(c)
    ELSE [bytes |-> <<c>>, panic |-> ""]

\* escape!'s "for c in raw" loop, one byte.
EscapeByte ==
    /\ epc = "loop"
    /\ k <= Len(raw)
    /\ LET e == escape_byte(fn, raw[k]) IN
       /\ output' = output \o e.bytes
       /\ epc' = IF e.panic # "" THEN "panic" ELSE "loop"
       /\ panic' = e.panic
    /\ k' = k + 1
    /\ UNCHANGED <<fn, raw, escaped, iter, buffer, pc, last, ref>>

\* escape!'s result: String::from_utf8(output).unwrap().
EscapeFinish ==
    /\ epc = "loop"
    /\ k > Len(raw)
    /\ epc' = IF from_utf8_ok(output) THEN "done" ELSE "panic"
    /\ panic' = IF from_utf8_ok(output) THEN "" ELSE FROM_UTF8_ERROR
    /\ UNCHANGED <<fn, raw, k, output, escaped, iter, buffer, pc, last, ref>>

\* unescape(escape_text(s)): the escaped string is handed to unescape.
Unescape ==
    /\ epc = "done"
    /\ pc = "idle"
    /\ escaped' = output
    /\ pc' = "loop"
    /\ UNCHANGED <<fn, raw, k, output, epc, iter, buffer, panic, last, ref>>

(***************************************************************************)
(* Inputs.                                                                 *)
(***************************************************************************)
MaxFrags == 3

MaxLen == 4

MaxZeros == 1

MaxSmall == 160

RECURSIVE Concats(_, _)
Concats(F, n) ==
    IF n = 0 THEN {<<>>}
    ELSE LET C == Concats(F, n - 1) IN C \cup {c \o f : c \in C, f \in F}

\* "&" and a run of 'a' that make a candidate longer than ENTITY_MAX_LENGTH.
LongCandidate == [i \in 1..(ENTITY_MAX_LENGTH + 1) |-> IF i = 1 THEN 38 ELSE 97]

NamedFragments ==
    {<<38>>,                                   \* &
     <<59>>,                                   \* ;
     <<97>>, <<98>>, <<90>>,                   \* a b Z
     <<98, 97, 114>>,                          \* bar
     <<38, 116, 105, 109, 101>>,               \* &time
     <<38, 116, 105, 109, 101, 115>>,          \* &times
     <<38, 97, 109, 112>>,                     \* &amp
     <<38, 117, 110, 107, 110, 111, 119, 110>>,\* &unknown
     <<38, 35>>,                               \* &#
     <<38, 35, 120>>,                          \* &#x
     <<38, 35, 88>>,                           \* &#X
     <<195, 169>>,                             \* e acute
     LongCandidate}

NamedInputs == Concats(NamedFragments, MaxFrags)

ByteAlphabet == {38, 35, 120, 59, 49, 195, 169, 255}   \* & # x ; 1 C3 A9 FF

ByteInputs == Concats({<<b>> : b \in ByteAlphabet}, MaxLen)

RECURSIVE Digits(_, _)
Digits(n, radix) ==
    IF n < radix THEN <<n>>
    ELSE Append(Digits(n \div radix, radix), n % radix)

DigitByte(d, upper) ==
    IF d < 10 THEN 48 + d ELSE IF upper THEN 65 + d - 10 ELSE 97 + d - 10

Spell(n, radix, upper) ==
    LET D == Digits(n, radix) IN [i \in 1..Len(D) |-> DigitByte(D[i], upper)]

NumericValues ==
    (0..MaxSmall) \cup
    {\hFF, \h100, \h7FF, \h800, \h2022, \h21D2, \hD7FF, \hD800, \hDBFF,
     \hDFFF, \hE000, \hFDCF, \hFDD0, \hFDEF, \hFDF0, \hFFFD, \hFFFE, \hFFFF,
     \h10000, \h1FFFE, \h1FFFF, \h2FFFD, \h8FFFE, \hFFFFF, \h100000,
     \h10FFFD, \h10FFFE, \h10FFFF, \h110000, \h7FFFFFFF}

\* Digit runs whose value needs 32 bits or more.
BigDecimalRuns ==
    {<<52, 50, 57, 52, 57, 54, 55, 50, 57, 53>>,        \* 4294967295
     <<52, 50, 57, 52, 57, 54, 55, 50, 57, 54>>,        \* 4294967296
     <<57, 57, 57, 57, 57, 57, 57, 57, 57, 57, 57>>}    \* 99999999999

BigHexRuns ==
    {<<70, 70, 70, 70, 70, 70, 70, 70>>,                \* FFFFFFFF
     <<102, 102, 102, 102, 102, 102, 102, 102>>,        \* ffffffff
     <<49, 48, 48, 48, 48, 48, 48, 48, 48>>}            \* 100000000

DecimalRuns == {Spell(n, 10, FALSE) : n \in NumericValues} \cup BigDecimalRuns

HexRuns ==
    {Spell(n, 16, u) : n \in NumericValues, u \in BOOLEAN} \cup BigHexRuns

Zeros(z) == [i \in 1..z |-> 48]

NumericRefs ==
    {[numeric |-> TRUE, pre |-> pre, marker |-> m, digits |-> Zeros(z) \o d,
      semi |-> semi, tail |-> tail] :
        pre \in {<<>>, <<97>>},
        m \in {<<>>},
        z \in 0..MaxZeros,
        d \in DecimalRuns,
        semi \in {<<>>, <<59>>},
        tail \in {<<>>, <<122>>, <<38>>}}
    \cup
    {[numeric |-> TRUE, pre |-> pre, marker |-> m, digits |-> Zeros(z) \o d,
      semi |-> semi, tail |-> tail] :
        pre \in {<<>>, <<97>>},
        m \in {<<120>>, <<88>>},
        z \in 0..MaxZeros,
        d \in HexRuns,
        semi \in {<<>>, <<59>>},
        tail \in {<<>>, <<122>>, <<38>>}}

RefBytes(r) == r.pre \o <<38, 35>> \o r.marker \o r.digits \o r.semi \o r.tail

EscapeFragments ==
    {<<38>>, <<60>>, <<62>>, <<34>>, <<39>>,   \* & < > " '
     <<97>>, <<59>>, <<35>>,                   \* a ; #
     <<97, 109, 112, 59>>,                     \* amp;
     <<108, 116, 59>>,                         \* lt;
     <<195, 169>>}                             \* e acute

EscapeInputs == Concats(EscapeFragments, MaxFrags)

EscapeFunctions == {"escape_text", "escape_attribute", "escape_all_quotes"}

(***************************************************************************)
(* Specifications.                                                         *)
(***************************************************************************)
InitUnescape ==
    /\ fn = ""
    /\ raw = <<>>
    /\ k = 1
    /\ output = <<>>
    /\ epc = "idle"
    /\ iter = new_iter
    /\ buffer = <<>>
    /\ pc = "loop"
    /\ panic = ""
    /\ last = NoCall

InitEscape ==
    /\ raw \in EscapeInputs
    /\ k = 1
    /\ output = <<>>
    /\ epc = "loop"
    /\ escaped = <<>>
    /\ iter = new_iter
    /\ buffer = <<>>
    /\ pc = "idle"
    /\ panic = ""
    /\ last = NoCall
    /\ ref = NoRef

\* unescape on named references and plain text.
InitNamed == InitUnescape /\ escaped \in NamedInputs /\ ref = NoRef

\* unescape on numeric references.
InitNumeric == InitUnescape /\ ref \in NumericRefs /\ escaped = RefBytes(ref)

\* unescape on arbitrary bytes.
InitBytes == InitUnescape /\ escaped \in ByteInputs /\ ref = NoRef

\* The three escape functions.
InitEscapes == InitEscape /\ fn \in EscapeFunctions

\* unescape(escape_text(s)).
InitRoundTrip == InitEscape /\ fn = "escape_text"

NextUnescape == ScanByte \/ ScanAmp \/ Finish

NextEscape == EscapeByte \/ EscapeFinish

NextRoundTrip == EscapeByte \/ EscapeFinish \/ Unescape \/ ScanByte \/ ScanAmp \/ Finish

Spec == InitNamed /\ [][NextUnescape]_vars

SpecNumeric == InitNumeric /\ [][NextUnescape]_vars

SpecBytes == InitBytes /\ [][NextUnescape]_vars

SpecEscape == InitEscapes /\ [][NextEscape]_vars

SpecRoundTrip == InitRoundTrip /\ [][NextRoundTrip]_vars

(***************************************************************************)
(* Vocabulary of the properties.                                           *)
(***************************************************************************)
Times == <<195, 151>>                 \* U+00D7
TimesB == <<226, 138, 160>>           \* U+22A0
Replacement == <<239, 191, 189>>      \* U+FFFD

\* The candidate of the '&' at index i of s: the '&', the maximal run of
\* ASCII alphanumerics after it, and a ';' if one follows.
RunEnd(s, i) ==
    CHOOSE j \in i..Len(s) :
        /\ \A m \in (i + 1)..j : s[m] \in Alphanumerics
        /\ (j = Len(s) \/ s[j + 1] \notin Alphanumerics)

CandidateAt(s, i) ==
    LET j == RunEnd(s, i) IN
    SubSeq(s, i, IF j < Len(s) /\ s[j + 1] = 59 THEN j + 1 ELSE j)

\* The lengths of the prefixes of candidate c that are keys of the table.
KeyLengths(c) ==
    {n \in ENTITY_MIN_LENGTH..Min(Len(c), ENTITY_MAX_LENGTH) :
        SubSeq(c, 1, n) \in DOMAIN ENTITIES}

IsNamedAt(s, i) == s[i] = 38 /\ (i = Len(s) \/ s[i + 1] # 35)

\* The value a digit run denotes, saturated at 0x110000.
DigitValue(b) ==
    IF b <= 57 THEN b - 48 ELSE IF b >= 97 THEN b - 87 ELSE b - 55

RECURSIVE DenoteFrom(_, _, _, _)
DenoteFrom(digits, radix, i, acc) ==
    IF i > Len(digits) THEN acc
    ELSE DenoteFrom(digits, radix, i + 1,
                    Min(acc * radix + DigitValue(digits[i]), \h110000))

RefRadix(r) == IF r.marker = <<>> THEN 10 ELSE 16

RefValue(r) == DenoteFrom(r.digits, RefRadix(r), 1, 0)

(***************************************************************************)
(* Properties of unescape on arbitrary bytes (SpecBytes).                  *)
(***************************************************************************)

\* C1: unescape is total over byte sequences: for every input, valid UTF-8
\* or not, the call returns instead of panicking, and what it returns is
\* valid UTF-8.
C1_UnescapeTotal ==
    /\ pc # "panic"
    /\ (pc = "done" => from_utf8_ok(buffer))

\* C10: no input makes a peek/consume consistency check fail: no call ends
\* in a PEEK_MATCH_ERROR panic (an expect() on a next() that follows a
\* peek(), or match_numeric_entity entered on a byte other than '#').
C10_NoPeekMatchError == panic # PEEK_MATCH_ERROR

\* The numeric reference "&#1;" was consumed through the peek/next
\* pairs, and the scan went on.
C10_Witness ==
    /\ last.called
    /\ last.consumed = <<38, 35, 49, 59>>
    /\ pc = "done"
    /\ panic = ""

(***************************************************************************)
(* Properties of unescape on named references (Spec).                      *)
(***************************************************************************)

\* C2: greedy longest match: match_entity consumes the candidate of its
\* '&', and when the candidate has ENTITY_MIN_LENGTH bytes or more and a
\* prefix that is a key, it returns the expansion of the longest such prefix
\* followed by the candidate's bytes after it; so the full spelling of a key
\* decodes to that key's expansion, whatever shorter keys are its prefixes.
C2_LongestMatch ==
    /\ (last.called /\ IsNamedAt(escaped, last.start)) =>
          LET c == CandidateAt(escaped, last.start)
              Ks == KeyLengths(c)
          IN  /\ last.consumed = c
              /\ (Ks # {} =>
                    \E n \in Ks :
                        /\ \A m \in Ks : m <= n
                        /\ last.out = ENTITIES[SubSeq(c, 1, n)]
                                          \o SubSeq(c, n + 1, Len(c)))
    /\ (pc = "done" /\ escaped \in DOMAIN ENTITIES) =>
          buffer = ENTITIES[escaped]

\* "&timesb;" was matched as a whole, although "&times" is a key too.
C2_Witness ==
    /\ last.called
    /\ last.consumed = <<38, 116, 105, 109, 101, 115, 98, 59>>
    /\ last.out = TimesB
    /\ pc = "done"
    /\ escaped = last.consumed

\* C3 as stated: "&times" decodes to U+00D7, "&timesa" to U+00D7 "a", and
\* "&timesb" (no ';') to U+22A0, the expansion of "&timesb;".
C3_MissingSemicolonStated ==
    pc = "done" =>
        /\ (escaped = <<38, 116, 105, 109, 101, 115>> => buffer = Times)
        /\ (escaped = <<38, 116, 105, 109, 101, 115, 97>> =>
                buffer = Times \o <<97>>)
        /\ (escaped = <<38, 116, 105, 109, 101, 115, 98>> => buffer = TimesB)

\* C3 amended: "&times" decodes to U+00D7, "&timesa" to U+00D7 "a", and
\* "&timesb" (no ';') to U+00D7 "b": "&timesb" is not a key, "&times" is.
C3_MissingSemicolon ==
    pc = "done" =>
        /\ (escaped = <<38, 116, 105, 109, 101, 115>> => buffer = Times)
        /\ (escaped = <<38, 116, 105, 109, 101, 115, 97>> =>
                buffer = Times \o <<97>>)
        /\ (escaped = <<38, 116, 105, 109, 101, 115, 98>> =>
                buffer = Times \o <<98>>)

C3_Witness ==
    /\ pc = "done"
    /\ escaped = <<38, 116, 105, 109, 101, 115, 98>>
    /\ buffer = Times \o <<98>>

\* No '&' of s starts a reference that resolves: a named candidate has no
\* prefix that is a key, and "&#", "&#x", "&#X" are followed by no digit of
\* the base.
NoDigitAfter(s, i) ==
    IF i + 2 <= Len(s) /\ s[i + 2] \in {120, 88}
    THEN i + 3 > Len(s) \/ s[i + 3] \notin HexadecimalDigits
    ELSE i + 2 > Len(s) \/ s[i + 2] \notin DecimalDigits

Unresolvable(s, i) ==
    IF IsNamedAt(s, i) THEN KeyLengths(CandidateAt(s, i)) = {}
    ELSE NoDigitAfter(s, i)

NoReference(s) == \A i \in 1..Len(s) : s[i] = 38 => Unresolvable(s, i)

\* C7: an input in which no '&' starts a reference that resolves is returned
\* byte for byte.
C7_Identity == (pc = "done" /\ NoReference(escaped)) => buffer = escaped

\* One iteration of the scan appends the bytes it consumed, unless they are
\* a reference that may resolve.
C7_Step ==
    (pc = "loop" /\ pc' = "loop") =>
        LET from == Consumed(iter) + 1
            consumed == SubSeq(escaped, from, Consumed(iter'))
        IN  \/ buffer' = buffer \o consumed
            \/ (escaped[from] = 38 /\ ~Unresolvable(escaped, from))

\* C7, with its general form: every byte that is not part of a reference
\* that resolves reaches the output unchanged and in order.
C7_Passthrough == [](C7_Identity) /\ [][C7_Step]_vars

\* "&#xZ;" came back unchanged.
C7_Witness ==
    /\ pc = "done"
    /\ escaped = <<38, 35, 120, 90, 59>>
    /\ buffer = escaped

(***************************************************************************)
(* Properties of unescape on numeric references (SpecNumeric).  The input  *)
(* is ref.pre, "&#", ref.marker, ref.digits, ref.semi, ref.tail.           *)
(***************************************************************************)

\* The Windows-1252 scalars of the 27 mapped values in 0x80..=0x9F.
Windows1252 ==
    (128 :> \h20AC) @@ (130 :> \h201A) @@ (131 :> \h0192) @@ (132 :> \h201E) @@
    (133 :> \h2026) @@ (134 :> \h2020) @@ (135 :> \h2021) @@ (136 :> \h02C6) @@
    (137 :> \h2030) @@ (138 :> \h0160) @@ (139 :> \h2039) @@ (140 :> \h0152) @@
    (142 :> \h017D) @@ (145 :> \h2018) @@ (146 :> \h2019) @@ (147 :> \h201C) @@
    (148 :> \h201D) @@ (149 :> \h2022) @@ (150 :> \h2013) @@ (151 :> \h2014) @@
    (152 :> \h02DC) @@ (153 :> \h2122) @@ (154 :> \h0161) @@ (155 :> \h203A) @@
    (156 :> \h0153) @@ (158 :> \h017E) @@ (159 :> \h0178)

Replaced(v) == v = 0 \/ v \in \hD800..\hDFFF \/ v > \h10FFFF

Noncharacter(v) ==
    /\ v <= \h10FFFF
    /\ (v \in \hFDD0..\hFDEF \/ v % 65536 \in {\hFFFE, \hFFFF})

UnmappedControl(v) ==
    /\ v \in (1..\h1F) \cup (\h7F..\h9F)
    /\ v \notin DOMAIN Windows1252
    /\ v \notin {\h09, \h0A, \h0C}

Uncorrected(v) == Noncharacter(v) \/ v = \h0D \/ UnmappedControl(v)

\* C4: a numeric reference whose digit run denotes 0, a surrogate or any
\* value above 0x10FFFF, however large, is replaced by exactly U+FFFD.
C4_Replacement ==
    (pc = "done" /\ ref.numeric /\ Replaced(RefValue(ref))) =>
        buffer = ref.pre \o Replacement \o ref.tail

\* C6: a numeric reference whose value is a noncharacter, 0x0D or a control
\* with neither a legacy mapping nor a whitespace exception is emitted as
\* the bytes that spelled it.
C6_Verbatim ==
    (pc = "done" /\ ref.numeric /\ Uncorrected(RefValue(ref))) =>
        buffer = escaped

\* "&#X0010FFFF" came back unchanged, before a "z".
C6_Witness ==
    /\ pc = "done"
    /\ ref.marker = <<88>>
    /\ ref.digits = <<48, 49, 48, 70, 70, 70, 70>>
    /\ ref.semi = <<>>
    /\ ref.tail = <<122>>
    /\ RefValue(ref) = \h10FFFF
    /\ buffer = escaped

\* C8: every spelling of a value that resolves to a scalar (decimal, "&#x" or
\* "&#X", either case of the hex digits, with or without ';') decodes to the
\* UTF-8 of the same scalar: the Windows-1252 scalar of a mapped value, the
\* value itself otherwise; the bytes after the reference follow unchanged.
C8_SpellingIndependent ==
    LET v == RefValue(ref) IN
    (pc = "done" /\ ref.numeric /\ ~Replaced(v) /\ ~Uncorrected(v)) =>
        buffer = ref.pre
                   \o encode_utf8(IF v \in DOMAIN Windows1252
                                  THEN Windows1252[v] ELSE v)
                   \o ref.tail

\* "&#X95z" decoded to U+2022 "z".
C8_Witness ==
    /\ pc = "done"
    /\ ref.pre = <<>>
    /\ ref.marker = <<88>>
    /\ ref.digits = <<57, 53>>
    /\ ref.semi = <<>>
    /\ ref.tail = <<122>>
    /\ buffer = <<226, 128, 162, 122>>

(***************************************************************************)
(* Properties of the escape functions (SpecEscape, SpecRoundTrip).         *)
(***************************************************************************)

\* The substitutions of each variant.
Substitutions(f) ==
    LET text == (38 :> <<38, 97, 109, 112, 59>>) @@          \* & -> &amp;
                (60 :> <<38, 108, 116, 59>>) @@                \* < -> &lt;
                (62 :> <<38, 103, 116, 59>>)                   \* > -> &gt;
        quot == (34 :> <<38, 113, 117, 111, 116, 59>>)         \* " -> &quot;
        apos == (39 :> <<38, 97, 112, 111, 115, 59>>)          \* ' -> &apos;
    IN  IF f = "escape_text" THEN text
        ELSE IF f = "escape_attribute" THEN text @@ quot
        ELSE text @@ quot @@ apos

RECURSIVE Substituted(_, _)
Substituted(f, s) ==
    IF s = <<>> THEN <<>>
    ELSE (IF Head(s) \in DOMAIN Substitutions(f)
          THEN Substitutions(f)[Head(s)] ELSE <<Head(s)>>)
             \o Substituted(f, Tail(s))

StartsAt(s, i, t) == i + Len(t) - 1 <= Len(s) /\ SubSeq(s, i, i + Len(t) - 1) = t

\* C9: each escape function replaces exactly the bytes of its set and copies
\* the others in order; its output holds none of the bytes it substitutes
\* but the '&' that starts one of its entities; escaping is not idempotent.
C9_Escape ==
    epc = "done" =>
        /\ output = Substituted(fn, raw)
        /\ \A i \in 1..Len(output) :
              output[i] \in DOMAIN Substitutions(fn) =>
                  /\ output[i] = 38
                  /\ \E c \in DOMAIN Substitutions(fn) :
                        StartsAt(output, i, Substitutions(fn)[c])
        /\ (fn = "escape_text" /\ raw = <<38, 97, 109, 112, 59>>) =>
              output = <<38, 97, 109, 112, 59, 97, 109, 112, 59>>
        /\ (fn = "escape_attribute" /\ raw = <<34, 39>>) =>
              output = <<38, 113, 117, 111, 116, 59, 39>>

\* escape_attribute turned "'" followed by a double quote into "'&quot;".
C9_Witness ==
    /\ epc = "done"
    /\ fn = "escape_attribute"
    /\ raw = <<39, 34>>
    /\ output = <<39, 38, 113, 117, 111, 116, 59>>

\* C5: unescape(escape_text(s)) = s: the '&' that "&amp;" expands to is
\* never scanned again, so it does not combine with the bytes after it.
C5_RoundTrip == (fn = "escape_text" /\ pc = "done") => buffer = raw

\* "&lt;" was escaped to "&amp;lt;" and came back as "&lt;".
C5_Witness ==
    /\ pc = "done"
    /\ raw = <<38, 108, 116, 59>>
    /\ escaped = <<38, 97, 109, 112, 59, 108, 116, 59>>
    /\ buffer = raw

====
